---------------------------- MODULE Spec2Model ----------------------------
(***************************************************************************)
(* Model of the PubSubService dispatcher of src/app.ts: the type-keyed     *)
(* subscriber registry (a Map of insertion-ordered Sets), the FIFO event   *)
(* queue, the isProcessing reentrancy guard and the drain loop with its    *)
(* live Set.prototype.forEach fan-out.  Handlers are arbitrary ISubscriber *)
(* implementations: while one runs it may publish, subscribe, unsubscribe, *)
(* return or throw.                                                        *)
(***************************************************************************)
EXTENDS Integers, Sequences, FiniteSets, TLC

\* Bounds of the model.
MaxEvents == 3          \* publish calls in one behaviour
MaxDriverPublishes == 3 \* events normalCase publishes in one behaviour

Kinds == {"k1", "k2"}   \* event type() strings
Subs == {"s1", "s2"}    \* ISubscriber identities

VARIABLES
    subscribers,    \* Map<string, Set<ISubscriber>>: kind -> insertion-ordered members
    eventQueue,     \* IEvent[]: pending events, head first
    isProcessing,   \* boolean drain flag
    stack,          \* call stack below the caller: processEventQueue and handle frames
    published,      \* number of publish calls so far (the id of the last event)
    shifted,        \* history: number of events taken off the queue
    lastShifted,    \* history: id of the event taken off the queue last
    outcome,        \* history: how the last publish call from outside ended
    faults,         \* history: number of times a handler threw
    faultedEvent,   \* history: id of the event whose handler threw last, 0 if none
    barred,         \* history: per (kind, subscriber), unsubscribed and not subscribed since
    roundTrip,      \* history: the last subscribe call, the memberships before it, and the
                    \* unsubscribe calls of the same pair that followed it directly
    stockLevel,     \* Machine.stockLevel of each machine of normalCase
    warningStates,  \* StockWarningSubscriber.warningStates: Map<string, boolean>
    calls,          \* history: the events normalCase has published, in order
    reports,        \* history: per machine, the tracker's warning and OK reports so far
    runReports      \* history: per machine, the reports within the current run of
                    \* low-stock events and within the current run of stock-ok events

vars == <<subscribers, eventQueue, isProcessing, stack, published, shifted, lastShifted,
          outcome, faults, faultedEvent, barred, roundTrip,
          stockLevel, warningStates, calls, reports, runReports>>
driverVars == <<stockLevel, warningStates, calls, reports, runReports>>

\* The machines of normalCase (line 215) and an id none of them has.
Machines == {"001", "002", "003"}
UnknownMachine == "004"
InitialStock == 10      \* Machine.stockLevel initialiser
LowThreshold == 3       \* the threshold of the sale and refill handlers

NoEvent == [id |-> 0, type |-> "none"]
EmptyRegistry == [k \in {} |-> <<>>]
NoRoundTrip == [phase |-> "none", type |-> "none", sub |-> "none", before |-> {}]

Range(seq) == {seq[i] : i \in 1..Len(seq)}

----------------------------------------------------------------------------
\* The containers, as the runtime implements them.

\* Array.prototype.push
QueuePushFront(q, e) == <<e>> \o q
QueuePush(q, e) == Append(q, e)

\* Array.prototype.shift: the element removed and the rest
QueueFront(q) == q[1]
QueueRestKeep(q) == q
QueueRest(q) == Tail(q)

\* Set.prototype.add: a member keeps its place, a new one goes last
SetAddAlways(set, s) == Append(set, s)
SetAdd(set, s) == IF s \in Range(set) THEN set ELSE Append(set, s)

\* Set.prototype.delete
SetDeleteNothing(set, s) == set
SetDeleteAll(set, s) == IF s \in Range(set) THEN <<>> ELSE set
SetDelete(set, s) == SelectSeq(set, LAMBDA x : x # s)

\* position of s in the set, 0 if absent
IndexOf(set, s) == IF s \in Range(set) THEN CHOOSE i \in 1..Len(set) : set[i] = s ELSE 0

\* Map.prototype.has / Set membership through the map
HasEntry(reg, k) == k \in DOMAIN reg
Members(reg, k) == IF HasEntry(reg, k) THEN Range(reg[k]) ELSE {}

\* the (kind, subscriber) pairs of the registry: a kind with an empty set
\* contributes nothing, like a kind without an entry
Memberships(reg) == {<<k, s>> \in Kinds \X Subs : s \in Members(reg, k)}

\* subscribe's effect on the registry (lines 185-188)
RegistryAdd(reg, k, s) ==
    LET withEntry == IF HasEntry(reg, k) THEN reg
                     ELSE [x \in DOMAIN reg \cup {k} |-> IF x = k THEN <<>> ELSE reg[x]]
    IN [withEntry EXCEPT ![k] = SetAdd(@, s)]

\* unsubscribe's effect on the registry (lines 192-194)
RegistryDeleteCreating(reg, k, s) ==
    LET withEntry == IF HasEntry(reg, k) THEN reg
                     ELSE [x \in DOMAIN reg \cup {k} |-> IF x = k THEN <<>> ELSE reg[x]]
    IN [withEntry EXCEPT ![k] = SetDelete(@, s)]
RegistryDeleteEverywhere(reg, k, s) == [x \in DOMAIN reg |-> SetDelete(reg[x], s)]
RegistryDelete(reg, k, s) ==
    IF HasEntry(reg, k) THEN [reg EXCEPT ![k] = SetDelete(@, s)] ELSE reg

----------------------------------------------------------------------------
\* The call stack.  The top frame is the last element.  A frame of
\* processEventQueue is at its loop test (pc "while") or inside forEach (pc
\* "forEach", with the event being delivered and the number of entries of the
\* live set already passed); a frame of a handler has pc "handle".  A forEach
\* frame also records, for the event it delivers: the members at the moment
\* the event was shifted (registered), the subscribers invoked so far
\* (received), whether one was invoked twice (repeated) and whether a member
\* of its kind was removed meanwhile (churn).

Frame(pc, event, sub, registered) ==
    [pc |-> pc, event |-> event, idx |-> 0, sub |-> sub, registered |-> registered,
     received |-> {}, repeated |-> FALSE, churn |-> FALSE]
WhileFrame == Frame("while", NoEvent, "none", {})

Top == stack[Len(stack)]
Pop(stk) == SubSeq(stk, 1, Len(stk) - 1)
ReplaceTop(stk, f) == [stk EXCEPT ![Len(stk)] = f]

AtTopLevel == stack = <<>>
InHandler == stack # <<>> /\ Top.pc = "handle"
DrainFrames == {i \in 1..Len(stack) : stack[i].pc \in {"while", "forEach"}}
DrainDepth == Cardinality(DrainFrames)
ForEachFrames == {i \in 1..Len(stack) : stack[i].pc = "forEach"}

\* publish's test of the flag (line 179)
StartsDrainAlways(flag) == TRUE
StartsDrainInverted(flag) == flag
StartsDrain(flag) == ~flag

\* An exception leaves every frame: nothing in the program catches it.
UnwindHandlerOnly(stk) == Pop(stk)
Unwind(stk) == <<>>

\* Set.prototype.forEach walks the live entry list: removing an entry that
\* was already passed does not make it skip or repeat another one.
AfterDelete(stk, reg, k, s) ==
    [i \in 1..Len(stk) |->
        IF stk[i].pc = "forEach" /\ stk[i].event.type = k /\ s \in Members(reg, k)
        THEN [stk[i] EXCEPT !.idx = IF IndexOf(reg[k], s) <= @ THEN @ - 1 ELSE @,
                            !.churn = TRUE]
        ELSE stk[i]]

----------------------------------------------------------------------------
\* Everything but the registry, after construction.
InitOther ==
    /\ eventQueue = <<>>
    /\ isProcessing = FALSE
    /\ stack = <<>>
    /\ published = 0
    /\ shifted = 0
    /\ lastShifted = 0
    /\ outcome = "none"
    /\ faults = 0
    /\ faultedEvent = 0
    /\ barred = [k \in Kinds |-> [s \in Subs |-> FALSE]]
    /\ roundTrip = NoRoundTrip
    /\ stockLevel = [m \in Machines |-> InitialStock]
    /\ warningStates = [m \in {} |-> FALSE]
    /\ calls = <<>>
    /\ reports = [m \in Machines |-> [warning |-> 0, ok |-> 0]]
    /\ runReports = [m \in Machines |-> [low |-> 0, ok |-> 0]]

Init ==
    /\ subscribers = EmptyRegistry
    /\ InitOther

\* publish(event), called from outside or from a handler (lines 176-182)
publish(k) ==
    /\ AtTopLevel \/ InHandler
    /\ published < MaxEvents
    /\ published' = published + 1
    /\ eventQueue' = QueuePush(eventQueue, [id |-> published + 1, type |-> k])
    /\ IF StartsDrain(isProcessing)
       THEN /\ isProcessing' = TRUE
            /\ stack' = Append(stack, WhileFrame)
            /\ UNCHANGED outcome
       ELSE /\ UNCHANGED <<isProcessing, stack>>
            /\ outcome' = IF AtTopLevel THEN "returned" ELSE outcome
    /\ UNCHANGED <<subscribers, shifted, lastShifted, faults, faultedEvent, barred>>

\* subscribe(type, handler), called from outside or from a handler (lines 184-189)
subscribe(k, s) ==
    /\ AtTopLevel \/ InHandler
    /\ subscribers' = RegistryAdd(subscribers, k, s)
    /\ barred' = [barred EXCEPT ![k][s] = FALSE]
    /\ UNCHANGED <<eventQueue, isProcessing, stack, published, shifted, lastShifted,
                   outcome, faults, faultedEvent>>

\* unsubscribe(type, handler), called from outside or from a handler (lines 191-195)
unsubscribe(k, s) ==
    /\ AtTopLevel \/ InHandler
    /\ subscribers' = RegistryDelete(subscribers, k, s)
    /\ stack' = AfterDelete(stack, subscribers, k, s)
    /\ barred' = [barred EXCEPT ![k][s] = TRUE]
    /\ UNCHANGED <<eventQueue, isProcessing, published, shifted, lastShifted, outcome,
                   faults, faultedEvent>>

\* processEventQueue at its loop test (lines 199-203, 207): shift the next
\* event and look its set up, or clear the flag and return
processEventQueue ==
    /\ stack # <<>> /\ Top.pc = "while"
    /\ IF Len(eventQueue) > 0
       THEN LET event == QueueFront(eventQueue) IN
            /\ eventQueue' = QueueRest(eventQueue)
            /\ shifted' = shifted + 1
            /\ lastShifted' = event.id
            /\ stack' = IF HasEntry(subscribers, event.type)
                        THEN ReplaceTop(stack, Frame("forEach", event, "none",
                                                     Members(subscribers, event.type)))
                        ELSE stack
            /\ UNCHANGED <<isProcessing, outcome>>
       ELSE /\ isProcessing' = FALSE
            /\ stack' = Pop(stack)
            /\ outcome' = IF Len(stack) = 1 THEN "returned" ELSE outcome
            /\ UNCHANGED <<eventQueue, shifted, lastShifted>>
    /\ UNCHANGED <<subscribers, published, faults, faultedEvent, barred>>

\* eventSubscribers.forEach (line 204): call handle on the next entry of the
\* live set, or finish the fan-out of this event
forEach ==
    /\ stack # <<>> /\ Top.pc = "forEach"
    /\ LET set == subscribers[Top.event.type] IN
       IF Top.idx < Len(set)
       THEN LET s == set[Top.idx + 1] IN
            stack' = Append(ReplaceTop(stack, [Top EXCEPT !.idx = @ + 1,
                                                          !.received = @ \cup {s},
                                                          !.repeated = @ \/ s \in Top.received]),
                            Frame("handle", Top.event, s, {}))
       ELSE stack' = ReplaceTop(stack, WhileFrame)
    /\ UNCHANGED <<subscribers, eventQueue, isProcessing, published, shifted, lastShifted,
                   outcome, faults, faultedEvent, barred>>

\* subscriber.handle(event) returns
handleReturn ==
    /\ InHandler
    /\ stack' = Pop(stack)
    /\ UNCHANGED <<subscribers, eventQueue, isProcessing, published, shifted, lastShifted,
                   outcome, faults, faultedEvent, barred>>

\* subscriber.handle(event) throws: the exception leaves forEach,
\* processEventQueue (before line 207) and publish
handleThrow ==
    /\ InHandler
    /\ stack' = Unwind(stack)
    /\ outcome' = "raised"
    /\ faults' = faults + 1
    /\ faultedEvent' = Top.event.id
    /\ UNCHANGED <<subscribers, eventQueue, isProcessing, published, shifted, lastShifted,
                   barred>>

\* The round-trip history: a subscribe call starts it, unsubscribe calls of
\* the same pair that follow directly advance it, any other call ends it.
AfterSubscribe(k, s) ==
    [phase |-> "subscribed", type |-> k, sub |-> s, before |-> Memberships(subscribers)]
AfterUnsubscribe(k, s) ==
    IF roundTrip.type = k /\ roundTrip.sub = s /\ roundTrip.phase = "subscribed"
    THEN [roundTrip EXCEPT !.phase = "unsubscribed"]
    ELSE IF roundTrip.type = k /\ roundTrip.sub = s
            /\ roundTrip.phase \in {"unsubscribed", "again"}
    THEN [roundTrip EXCEPT !.phase = "again"]
    ELSE NoRoundTrip

\* The dispatcher and its handlers.
Next ==
    \/ \E k \in Kinds : publish(k) /\ UNCHANGED <<roundTrip, driverVars>>
    \/ \E k \in Kinds, s \in Subs : subscribe(k, s) /\ UNCHANGED <<roundTrip, driverVars>>
    \/ \E k \in Kinds, s \in Subs : unsubscribe(k, s) /\ UNCHANGED <<roundTrip, driverVars>>
    \/ processEventQueue /\ UNCHANGED <<roundTrip, driverVars>>
    \/ forEach /\ UNCHANGED <<roundTrip, driverVars>>
    \/ handleReturn /\ UNCHANGED <<roundTrip, driverVars>>
    \/ handleThrow /\ UNCHANGED <<roundTrip, driverVars>>

Spec == Init /\ [][Next]_vars

\* The same program, with the round-trip history kept.
RoundTripNext ==
    \/ \E k \in Kinds : publish(k) /\ roundTrip' = NoRoundTrip /\ UNCHANGED driverVars
    \/ \E k \in Kinds, s \in Subs : subscribe(k, s) /\ roundTrip' = AfterSubscribe(k, s) /\ UNCHANGED driverVars
    \/ \E k \in Kinds, s \in Subs : unsubscribe(k, s) /\ roundTrip' = AfterUnsubscribe(k, s)
                                         /\ UNCHANGED driverVars
    \/ processEventQueue /\ UNCHANGED <<roundTrip, driverVars>>
    \/ forEach /\ UNCHANGED <<roundTrip, driverVars>>
    \/ handleReturn /\ UNCHANGED <<roundTrip, driverVars>>
    \/ handleThrow /\ UNCHANGED <<roundTrip, driverVars>>

RoundTripSpec == Init /\ [][RoundTripNext]_vars

----------------------------------------------------------------------------
\* The program of normalCase: the dispatcher wired to the sale, refill and
\* stock-warning subscribers (lines 215-224), publishing sale and refill
\* events (line 229).  A handler runs its body in one step (its frame's idx
\* goes from 0 to 1) and returns in the next.

DriverWiring ==
    RegistryAdd(RegistryAdd(RegistryAdd(RegistryAdd(EmptyRegistry,
        "sale", "saleSubscriber"),
        "refill", "refillSubscriber"),
        "lowStockWarning", "stockWarningSubscriber"),
        "stockLevelOk", "stockWarningSubscriber")

\* quantities of eventGenerator (lines 164, 167), and a sale of 8 to reach a low stock
SaleQuantities == {1, 2, 8}
RefillQuantities == {3, 5}
Quantities(type) == IF type = "sale" THEN SaleQuantities ELSE RefillQuantities

Event(id, type, machineId, qty) ==
    [id |-> id, type |-> type, machineId |-> machineId, qty |-> qty]

\* machines.find(m => m.id === event.machineId()): the machine, or "none"
FindMachineOrFirst(levels, id) == IF id \in DOMAIN levels THEN id ELSE "001"
FindMachine(levels, id) == IF id \in DOMAIN levels THEN id ELSE "none"

\* machine.stockLevel -= event.getSoldQuantity()
StockAfterSaleOfOne(level, qty) == level - 1
StockAfterSale(level, qty) == level - qty
\* machine.stockLevel += event.getRefillQuantity()
StockAfterRefillReplacing(level, qty) == qty
StockAfterRefill(level, qty) == level + qty

\* machine.stockLevel < 3 and machine.stockLevel >= 3
IsLowInclusive(level) == level <= LowThreshold
IsLow(level) == level < LowThreshold
IsOk(level) == level >= LowThreshold

\* this.warningStates.get(id), read as a condition: undefined is false
IsWarned(ws, id) == id \in DOMAIN ws /\ ws[id]
\* this.warningStates.set(id, value)
MapSet(ws, id, value) == [x \in DOMAIN ws \cup {id} |-> IF x = id THEN value ELSE ws[x]]

\* the tracker's tests before it reports (lines 124, 129)
ReportsLowAlways(ws, id) == TRUE
ReportsLow(ws, id) == ~IsWarned(ws, id)
ReportsOk(ws, id) == IsWarned(ws, id)

DriverInit ==
    /\ subscribers = DriverWiring
    /\ InitOther

\* pubSubService.publish(event) of line 229
driverPublish(type, machineId, qty) ==
    /\ AtTopLevel
    /\ Len(calls) < MaxDriverPublishes
    /\ LET event == Event(published + 1, type, machineId, qty) IN
       /\ published' = published + 1
       /\ eventQueue' = QueuePush(eventQueue, event)
       /\ calls' = Append(calls, event)
    /\ IF StartsDrain(isProcessing)
       THEN /\ isProcessing' = TRUE
            /\ stack' = Append(stack, WhileFrame)
            /\ UNCHANGED outcome
       ELSE /\ UNCHANGED <<isProcessing, stack>>
            /\ outcome' = "returned"
    /\ UNCHANGED <<subscribers, shifted, lastShifted, faults, faultedEvent, barred,
                   roundTrip, stockLevel, warningStates, reports, runReports>>

\* pubSubService.publish(event) called by the handler on top of the stack,
\* whose frame becomes done
HandlerPublishes(event, done) ==
    /\ published' = published + 1
    /\ eventQueue' = QueuePush(eventQueue, event)
    /\ IF StartsDrain(isProcessing)
       THEN /\ isProcessing' = TRUE
            /\ stack' = Append(done, WhileFrame)
       ELSE /\ UNCHANGED isProcessing
            /\ stack' = done
HandlerPublishesNothing(done) ==
    /\ UNCHANGED <<published, eventQueue, isProcessing>>
    /\ stack' = done

BodyDone == ReplaceTop(stack, [Top EXCEPT !.idx = 1])
InBodyOf(sub) == InHandler /\ Top.sub = sub /\ Top.idx = 0

\* MachineSaleSubscriber.handle (lines 82-94)
saleHandle ==
    /\ InBodyOf("saleSubscriber")
    /\ LET machine == FindMachine(stockLevel, Top.event.machineId) IN
       IF machine # "none"
       THEN LET level == StockAfterSale(stockLevel[machine], Top.event.qty) IN
            /\ stockLevel' = [stockLevel EXCEPT ![machine] = level]
            /\ IF IsLow(level)
               THEN HandlerPublishes(Event(published + 1, "lowStockWarning", machine, 0),
                                     BodyDone)
               ELSE HandlerPublishesNothing(BodyDone)
       ELSE /\ UNCHANGED stockLevel
            /\ HandlerPublishesNothing(BodyDone)
    /\ UNCHANGED <<subscribers, shifted, lastShifted, outcome, faults, faultedEvent, barred,
                   roundTrip, warningStates, calls, reports, runReports>>

\* MachineRefillSubscriber.handle (lines 104-116)
refillHandle ==
    /\ InBodyOf("refillSubscriber")
    /\ LET machine == FindMachine(stockLevel, Top.event.machineId) IN
       IF machine # "none"
       THEN LET level == StockAfterRefill(stockLevel[machine], Top.event.qty) IN
            /\ stockLevel' = [stockLevel EXCEPT ![machine] = level]
            /\ IF IsOk(level)
               THEN HandlerPublishes(Event(published + 1, "stockLevelOk", machine, 0),
                                     BodyDone)
               ELSE HandlerPublishesNothing(BodyDone)
       ELSE /\ UNCHANGED stockLevel
            /\ HandlerPublishesNothing(BodyDone)
    /\ UNCHANGED <<subscribers, shifted, lastShifted, outcome, faults, faultedEvent, barred,
                   roundTrip, warningStates, calls, reports, runReports>>

\* StockWarningSubscriber.handle (lines 122-134); a report is its console.log
trackerHandle ==
    /\ InBodyOf("stockWarningSubscriber")
    /\ LET id == Top.event.machineId IN
       IF Top.event.type = "lowStockWarning"
       THEN /\ IF ReportsLow(warningStates, id)
               THEN /\ warningStates' = MapSet(warningStates, id, TRUE)
                    /\ reports' = [reports EXCEPT ![id].warning = @ + 1]
                    /\ runReports' = [runReports EXCEPT ![id] = [low |-> @.low + 1, ok |-> 0]]
               ELSE /\ UNCHANGED <<warningStates, reports>>
                    /\ runReports' = [runReports EXCEPT ![id].ok = 0]
       ELSE IF Top.event.type = "stockLevelOk"
       THEN /\ IF ReportsOk(warningStates, id)
               THEN /\ warningStates' = MapSet(warningStates, id, FALSE)
                    /\ reports' = [reports EXCEPT ![id].ok = @ + 1]
                    /\ runReports' = [runReports EXCEPT ![id] = [low |-> 0, ok |-> @.ok + 1]]
               ELSE /\ UNCHANGED <<warningStates, reports>>
                    /\ runReports' = [runReports EXCEPT ![id].low = 0]
       ELSE UNCHANGED <<warningStates, reports, runReports>>
    /\ stack' = BodyDone
    /\ UNCHANGED <<subscribers, eventQueue, isProcessing, published, shifted, lastShifted,
                   outcome, faults, faultedEvent, barred, roundTrip, stockLevel, calls>>

\* the steps of a publish call in progress
DriverRuns ==
    \/ processEventQueue /\ UNCHANGED <<roundTrip, driverVars>>
    \/ forEach /\ UNCHANGED <<roundTrip, driverVars>>
    \/ saleHandle
    \/ refillHandle
    \/ trackerHandle
    \/ handleReturn /\ Top.idx = 1 /\ UNCHANGED <<roundTrip, driverVars>>

DriverNext ==
    \/ \E type \in {"sale", "refill"}, machineId \in Machines \cup {UnknownMachine} :
         \E qty \in Quantities(type) : driverPublish(type, machineId, qty)
    \/ DriverRuns

DriverSpec == DriverInit /\ [][DriverNext]_vars

\* The calls are synchronous: a publish call in progress keeps running.
DriverFairSpec == DriverSpec /\ WF_vars(DriverRuns)

----------------------------------------------------------------------------
\* Steps of a behaviour, recognised from the variables.

\* a handler is called: a handle frame is pushed
InvokeStep == Len(stack') = Len(stack) + 1 /\ stack'[Len(stack')].pc = "handle"
\* a publish call is made
PublishStep == published' = published + 1
\* a handler throws
ThrowStep == faults' = faults + 1

\* the fan-out of the event on top of the stack has no entry left to visit
FanOutDone ==
    /\ stack # <<>> /\ Top.pc = "forEach"
    /\ Top.idx >= Len(subscribers[Top.event.type])

----------------------------------------------------------------------------
\* C1: global FIFO delivery.  The n-th event taken off the queue is the n-th
\* event published; the pending events are the later ones, in publish order;
\* and a handler only ever runs for the event taken off last.  So every
\* handle call for an earlier event precedes every handle call for a later
\* one, and an event published by a handler waits for the event in delivery
\* and for everything queued before it.
C1_GlobalFifo ==
    /\ lastShifted = shifted
    /\ Len(eventQueue) = published - shifted
    /\ \A i \in 1..Len(eventQueue) : eventQueue[i].id = shifted + i
    /\ \A i \in 1..Len(stack) :
         stack[i].pc \in {"forEach", "handle"} => stack[i].event.id = shifted

\* the third event, published like the second while the first publish call
\* was still draining, is being handled after both
C1_Witness ==
    /\ InHandler /\ Top.event.id = 3
    /\ outcome = "none" /\ faults = 0

\* C2: at most one drain.  No state has two activations of processEventQueue
\* on the stack, and a publish call made while isProcessing is true appends
\* its event and returns: it starts no drain and calls no handler.
C2_SingleDrain ==
    /\ [](DrainDepth <= 1)
    /\ [][(PublishStep /\ isProcessing) =>
            /\ stack' = stack
            /\ isProcessing'
            /\ Len(eventQueue') = Len(eventQueue) + 1
            /\ SubSeq(eventQueue', 1, Len(eventQueue)) = eventQueue]_vars

\* a handler has published: an event waits in the queue while it runs
C2_Witness == InHandler /\ Len(eventQueue) > 0 /\ DrainDepth = 1 /\ isProcessing

\* C3: every subscriber registered for the kind when the event was taken off
\* the queue has been called with it once its fan-out has finished.
C3_SnapshotKeepsUnsubscribed == FanOutDone => Top.registered \subseteq Top.received

\* C4: only subscribers registered for the kind when the event was taken off
\* the queue are called with it.
C4_SnapshotExcludesNew ==
    \A i \in ForEachFrames : stack[i].received \subseteq stack[i].registered

\* C5: after a handler has thrown, a publish call from outside that returns
\* has drained the queue.
C5_ResumeAfterFault ==
    (faults > 0 /\ AtTopLevel /\ outcome = "returned") => eventQueue = <<>>

\* C6: when a handler throws, control is back outside the publish call at
\* once, the queue is as it was and does not hold the event whose delivery
\* failed; and no handler is called with that event afterwards.
C6_FaultPropagates ==
    [][/\ ThrowStep =>
            /\ stack' = <<>>
            /\ outcome' = "raised"
            /\ eventQueue' = eventQueue
            /\ \A i \in 1..Len(eventQueue') : eventQueue'[i].id # faultedEvent'
       /\ InvokeStep => stack'[Len(stack')].event.id # faultedEvent]_vars

\* a handler threw while a later event was still queued
C6_Witness == outcome = "raised" /\ AtTopLevel /\ faults = 1 /\ Len(eventQueue) > 0

\* C7: while no handler has thrown, whenever no publish call is in progress
\* the queue is empty, the flag is false and every event published so far has
\* been taken off the queue.
C7_DrainsBeforeReturn ==
    (faults = 0 /\ AtTopLevel) =>
        /\ eventQueue = <<>>
        /\ ~isProcessing
        /\ shifted = published

\* a publish call from outside has returned after two events or more
C7_Witness == faults = 0 /\ AtTopLevel /\ outcome = "returned" /\ published >= 2

\* C8: subscribe is idempotent.  No set of the registry holds a subscriber
\* twice, a second subscribe of the same pair leaves the registry as the
\* first made it, and in a fan-out during which no member was removed nobody
\* is called twice and, at its end, every member has been called.
C8_SubscribeIdempotent ==
    /\ \A k \in DOMAIN subscribers : Cardinality(Range(subscribers[k])) = Len(subscribers[k])
    /\ \A k \in Kinds, s \in Subs :
         RegistryAdd(RegistryAdd(subscribers, k, s), k, s) = RegistryAdd(subscribers, k, s)
    /\ roundTrip.phase = "subscribed" /\ <<roundTrip.type, roundTrip.sub>> \in roundTrip.before
         => Memberships(subscribers) = roundTrip.before
    /\ \A i \in ForEachFrames : ~stack[i].churn => ~stack[i].repeated
    /\ (FanOutDone /\ ~Top.churn) => Top.received = Members(subscribers, Top.event.type)

\* a subscriber already registered for the kind in delivery was subscribed to
\* it again, and the fan-out ended with it called once
C8_Witness ==
    /\ FanOutDone /\ ~Top.churn /\ ~Top.repeated
    /\ roundTrip.phase = "subscribed" /\ roundTrip.type = Top.event.type
    /\ <<roundTrip.type, roundTrip.sub>> \in roundTrip.before
    /\ roundTrip.sub \in Top.received

\* C9: a subscriber is called with an event of a kind only while no
\* unsubscribe of it from that kind is outstanding (none since it was last
\* subscribed); so after unsubscribe(K, S), S gets no event of kind K
\* published later until it is subscribed to K again.
C9_NoDeliveryAfterUnsubscribe ==
    [][InvokeStep =>
         ~barred[stack'[Len(stack')].event.type][stack'[Len(stack')].sub]]_vars

\* the fan-out of a later event ends with another subscriber called and the
\* unsubscribed one, not registered when the event was taken off, not called
C9_Witness ==
    /\ FanOutDone /\ Top.event.id >= 2
    /\ \E s \in Subs :
         /\ barred[Top.event.type][s]
         /\ s \notin Top.registered /\ s \notin Top.received
         /\ Top.received # {}

\* C10 as stated: subscribe then unsubscribe of the same pair leaves the
\* memberships of the registry as they were before the subscribe.
C10_RoundTripRestores ==
    roundTrip.phase \in {"unsubscribed", "again"} =>
        Memberships(subscribers) = roundTrip.before

\* C10 as amended: subscribe then unsubscribe of the same pair leaves the
\* memberships as they were before the subscribe, less that pair (so exactly
\* as before when the pair was not registered), and a second unsubscribe
\* changes nothing.
C10_RoundTripRemovesPair ==
    roundTrip.phase \in {"unsubscribed", "again"} =>
        /\ Memberships(subscribers) = roundTrip.before \ {<<roundTrip.type, roundTrip.sub>>}
        /\ <<roundTrip.type, roundTrip.sub>> \notin roundTrip.before =>
             Memberships(subscribers) = roundTrip.before

\* a pair that was not registered was subscribed and unsubscribed twice,
\* with other memberships present
C10_Witness ==
    /\ roundTrip.phase = "again"
    /\ <<roundTrip.type, roundTrip.sub>> \notin roundTrip.before
    /\ roundTrip.before # {}

\* C11: unsubscribe of a pair that is not registered is a silent no-op.  The
\* call leaves the registry (its entries included), the queue, the flag and
\* the call stack as they were and raises nothing, whether the kind has an
\* entry or not.
C11_UnsubscribeAbsentNoOp ==
    /\ [](\A k \in Kinds, s \in Subs :
            s \notin Members(subscribers, k) => RegistryDelete(subscribers, k, s) = subscribers)
    /\ [][\A k \in Kinds, s \in Subs :
            (barred'[k][s] /\ ~barred[k][s] /\ s \notin Members(subscribers, k)) =>
                /\ subscribers' = subscribers
                /\ eventQueue' = eventQueue
                /\ isProcessing' = isProcessing
                /\ stack' = stack
                /\ faults' = faults
                /\ outcome' = outcome]_vars

\* unsubscribe was called for a kind that has no entry, and there is still
\* none, while another kind has its registration
C11_Witness ==
    \E k \in Kinds, s \in Subs :
        /\ barred[k][s] /\ ~HasEntry(subscribers, k)
        /\ Memberships(subscribers) # {}

\* an event is taken off the queue
ShiftStep == shifted' = shifted + 1

\* C12: an event of a kind without subscribers (no entry, or an empty set) is
\* taken off the queue without an error and without a handler being called,
\* and the dispatcher is idle once the publish call is over.
C12_NoSubscribersNoOp ==
    /\ [][(ShiftStep /\ Members(subscribers, QueueFront(eventQueue).type) = {}) =>
            /\ eventQueue' = Tail(eventQueue)
            /\ faults' = faults
            /\ Len(stack') = Len(stack)
            /\ stack'[Len(stack')].pc \in {"while", "forEach"}]_vars
    /\ [](\A i \in ForEachFrames :
            stack[i].registered = {} => stack[i].received = {} /\ i = Len(stack))
    /\ []((AtTopLevel /\ faults = 0) => (~isProcessing /\ eventQueue = <<>>))

\* the fan-out of an event whose kind has an empty set ends with nobody called
C12_Witness ==
    /\ FanOutDone /\ Top.registered = {} /\ Top.received = {}
    /\ eventQueue = <<>> /\ faults = 0

\* C13: unsubscription is precise.  A call that removes a membership removes
\* exactly the pair it names, the sets of the other kinds stay as they were,
\* and every member of a kind is called with an event of that kind (when no
\* member is removed during its fan-out), also one unsubscribed from another.
C13_UnsubscribePrecise ==
    /\ [][(Memberships(subscribers') # Memberships(subscribers)
           /\ Memberships(subscribers') \subseteq Memberships(subscribers)) =>
            \E k \in Kinds, s \in Subs :
                /\ Memberships(subscribers) \ Memberships(subscribers') = {<<k, s>>}
                /\ barred'[k][s]
                /\ \A x \in DOMAIN subscribers : x # k => subscribers'[x] = subscribers[x]]_vars
    /\ []((FanOutDone /\ ~Top.churn) =>
            Members(subscribers, Top.event.type) \subseteq Top.received)

\* a subscriber unsubscribed from one kind, which has an entry, has been
\* called with an event of the other kind
C13_Witness ==
    /\ FanOutDone
    /\ \E k \in Kinds, s \in Subs :
         /\ k # Top.event.type /\ HasEntry(subscribers, k)
         /\ barred[k][s] /\ ~barred[Top.event.type][s]
         /\ s \in Top.registered /\ s \in Top.received

\* C18: no subscriber is called twice with the same event.
C18_AtMostOnce == \A i \in ForEachFrames : ~stack[i].repeated

----------------------------------------------------------------------------
\* Claims about the program of normalCase.

LastCall == calls[Len(calls)]
\* the handler on top of the stack is about to handle an event for machine id
Handling(sub, type) == InBodyOf(sub) /\ Top.event.type = type

\* C14: the tracker reports at most one warning per run of low-stock events
\* of a machine and at most one OK per run of stock-ok events, never more
\* OKs than warnings; a low-stock event leaves the machine warned, a stock-ok
\* event leaves it not warned and reports nothing unless it was warned, and
\* the flags of the other machines stay as they were.
C14_OneReportPerRun ==
    /\ [](\A m \in Machines :
            /\ runReports[m].low <= 1 /\ runReports[m].ok <= 1
            /\ reports[m].ok <= reports[m].warning)
    /\ [][InBodyOf("stockWarningSubscriber") =>
            /\ \A m \in Machines \ {Top.event.machineId} :
                 IsWarned(warningStates', m) = IsWarned(warningStates, m)
            /\ Top.event.type = "lowStockWarning" =>
                 IsWarned(warningStates', Top.event.machineId)
            /\ Top.event.type = "stockLevelOk" =>
                 /\ ~IsWarned(warningStates', Top.event.machineId)
                 /\ ~IsWarned(warningStates, Top.event.machineId) => reports' = reports]_vars

\* two sales of the same machine each published a low-stock event, and one
\* warning was reported
C14_Witness ==
    /\ AtTopLevel /\ Len(calls) = 2 /\ published = 4
    /\ calls[1].machineId = calls[2].machineId
    /\ reports[calls[1].machineId].warning = 1

\* the scenario: a sale of 8, a sale of 1 and a refill of 5 for machine 001
Scenario == <<[type |-> "sale", qty |-> 8], [type |-> "sale", qty |-> 1],
              [type |-> "refill", qty |-> 5]>>
ScenarioUpTo(n) ==
    /\ AtTopLevel /\ Len(calls) = n
    /\ \A i \in 1..n : /\ calls[i].type = Scenario[i].type
                       /\ calls[i].qty = Scenario[i].qty
                       /\ calls[i].machineId = "001"

\* C15: in the scenario, after the sale of 8 machine 001 has 2 items, a
\* low-stock event was delivered and one warning reported; after the sale of
\* 1 it has 1 item and still one warning; after the refill of 5 it has 6
\* items and one OK report; machines 002 and 003 keep their 10 items.
C15_Scenario ==
    /\ ScenarioUpTo(1) =>
         /\ stockLevel["001"] = 2 /\ published = 2 /\ shifted = 2
         /\ reports["001"] = [warning |-> 1, ok |-> 0]
    /\ ScenarioUpTo(2) =>
         /\ stockLevel["001"] = 1
         /\ reports["001"] = [warning |-> 1, ok |-> 0]
    /\ ScenarioUpTo(3) =>
         /\ stockLevel["001"] = 6 /\ shifted = published
         /\ reports["001"] = [warning |-> 1, ok |-> 1]
    /\ \A n \in 1..3 : ScenarioUpTo(n) =>
         stockLevel["002"] = InitialStock /\ stockLevel["003"] = InitialStock

\* the scenario has run to its end
C15_Witness == ScenarioUpTo(3)

\* C16: a publish call of normalCase runs to completion.  The queue never
\* holds more than one event, a call takes at most two events off the queue
\* (its own and one derived event), it ends with the queue empty and the
\* flag false, and a call in progress always ends.
C16_DrainCompletes ==
    /\ [](/\ Len(eventQueue) <= 1
          /\ calls # <<>> => (published - LastCall.id + 1 <= 2 /\ shifted <= published)
          /\ AtTopLevel => (eventQueue = <<>> /\ ~isProcessing /\ shifted = published)
          /\ ~AtTopLevel => ENABLED DriverRuns)
    /\ (~AtTopLevel) ~> AtTopLevel

\* a publish call is over after delivering its event and a derived one
C16_Witness ==
    /\ AtTopLevel /\ calls # <<>>
    /\ published = LastCall.id + 1 /\ shifted = published

\* C17: a sale or refill event for a machine the handler does not find is
\* skipped: the handler changes no stock level and no flag, publishes
\* nothing, throws nothing and returns to the drain.
C17_UnknownMachineSkipped ==
    [][((InBodyOf("saleSubscriber") \/ InBodyOf("refillSubscriber"))
        /\ Top.event.machineId \notin Machines) =>
            /\ stockLevel' = stockLevel
            /\ warningStates' = warningStates
            /\ eventQueue' = eventQueue /\ published' = published
            /\ faults' = faults
            /\ Len(stack') = Len(stack) /\ stack'[Len(stack')].idx = 1]_vars

\* an event for an unknown machine was skipped, and the next event, for a
\* known one, was handled
C17_Witness ==
    /\ AtTopLevel /\ Len(calls) = 2
    /\ calls[1].machineId = UnknownMachine
    /\ calls[2].machineId \in Machines
    /\ stockLevel[calls[2].machineId] # InitialStock

\* C19: whenever the dispatcher is idle, a machine is warned if and only if
\* its stock level is below 3.
C19_WarnedIffLow ==
    AtTopLevel =>
        \A m \in Machines : IsWarned(warningStates, m) <=> stockLevel[m] < LowThreshold

\* idle with one machine warned and another cleared after a warning
C19_Witness ==
    /\ AtTopLevel
    /\ \E m \in Machines : IsWarned(warningStates, m) /\ stockLevel[m] < LowThreshold
    /\ \E m \in DOMAIN warningStates : ~warningStates[m] /\ stockLevel[m] >= LowThreshold

\* what the calls for machine m add up to: refills less sales
RECURSIVE Net(_, _)
Net(seq, m) ==
    IF seq = <<>> THEN 0
    ELSE Net(Tail(seq), m)
         + (IF Head(seq).machineId # m THEN 0
            ELSE IF Head(seq).type = "sale" THEN 0 - Head(seq).qty ELSE Head(seq).qty)

\* the queue after the step is the queue before it, or that with one event
\* for machine m appended
PublishedAtMostFor(m) ==
    \/ eventQueue' = eventQueue
    \/ /\ Len(eventQueue') = Len(eventQueue) + 1
       /\ SubSeq(eventQueue', 1, Len(eventQueue)) = eventQueue
       /\ eventQueue'[Len(eventQueue')].machineId = m

\* C20: handling a sale or refill event for a machine changes that machine's
\* stock level by minus the sold or plus the refilled quantity and nothing
\* else: no other stock level, no flag of the tracker; an event it publishes
\* is for that machine.  So when idle each stock level is 10 less the sales
\* plus the refills published for the machine.
C20_OnlyOwnStock ==
    /\ [][\A m \in Machines :
            /\ (Handling("saleSubscriber", "sale") /\ Top.event.machineId = m) =>
                 /\ stockLevel' = [stockLevel EXCEPT ![m] = @ - Top.event.qty]
                 /\ warningStates' = warningStates
                 /\ PublishedAtMostFor(m)
            /\ (Handling("refillSubscriber", "refill") /\ Top.event.machineId = m) =>
                 /\ stockLevel' = [stockLevel EXCEPT ![m] = @ + Top.event.qty]
                 /\ warningStates' = warningStates
                 /\ PublishedAtMostFor(m)]_vars
    /\ [](AtTopLevel => \A m \in Machines : stockLevel[m] = InitialStock + Net(calls, m))

\* idle after a sale and a refill for one machine and nothing for another
C20_Witness ==
    /\ AtTopLevel
    /\ \E i, j \in 1..Len(calls) :
         /\ calls[i].type = "sale" /\ calls[j].type = "refill"
         /\ calls[i].machineId = calls[j].machineId /\ calls[i].machineId \in Machines
    /\ \E m \in Machines : Net(calls, m) = 0 /\ stockLevel[m] = InitialStock

=============================================================================
